---- MODULE Spec2Model ----
(***************************************************************************)
(* Model of the invoice front end: App (file intake, batch start, reset,   *)
(* session id), the InvoiceProcessor batch orchestrator in its two         *)
(* variants (inline session id, explicit /create-session), and the React   *)
(* re-render that re-fires the processing effect.                          *)
(*                                                                         *)
(* One action is one uninterrupted piece of JavaScript: an event handler   *)
(* with the synchronous render that follows it, or the continuation of an  *)
(* async function between two awaits, with the render of the state         *)
(* updates it batched and the effects that render fires.                   *)
(***************************************************************************)
EXTENDS Integers, Sequences, FiniteSets

\* ------------------------------------------------------------------ bounds
MaxFiles == 2
MaxRuns == 2
MaxInput == 2
MaxMessages == 4
MaxDead == 1
MaxInvoices == 2
MaxIntake == 3
MaxSelected == 2

Null == "null"
FileIds == 1..MaxFiles
SessionIds == {"s1", "s2"}
Slots == 1..MaxRuns

\* error texts
ProcessingFailed == "Processing failed"
ServiceErrors == {"unsupported format"}
NetworkError == "Network Error"

VARIABLES
  variant,            \* which InvoiceProcessor is deployed: "inline" | "create"
  files,              \* App: useState([])
  processedInvoices,  \* App: useState([])
  isProcessing,       \* App: useState(false)
  currentView,        \* App: useState('upload')
  chatSessionId,      \* App: useState(null)
  processingStatus,   \* InvoiceProcessor: useState({}) / useState([])
  runs,               \* the invocations of processInvoices still executing
  emitted,            \* history: the last onProcessed call since the last start or reset
  completeCalls,      \* history: onProcessingComplete calls for the current batch
  adoptCalls,         \* history: onSessionCreated calls for the current batch
  lastAdopt,          \* history: argument of the last onSessionCreated call
  firstSid,           \* history: first session id returned to the current batch
  sessionFresh,       \* history: chatSessionId was returned for the batch App holds
  lastCreate,         \* history: how the last /create-session call settled
  lastRemove,         \* history: the last removeFile call on the list shown
  isOpen,             \* ChatInterface: useState(false)
  messages,           \* ChatInterface: useState([])
  inputValue,         \* ChatInterface: useState('')
  isLoading,          \* ChatInterface: useState(false)
  chatReqs,           \* the /chat requests the mounted ChatInterface awaits
  deadReqs,           \* /chat requests awaited by unmounted ChatInterfaces
  lastSend,           \* history: what the last handleSend call did
  lastDelete,         \* history: how the last deleteSession call settled
  failure,            \* a failed extraction call, as the orchestrator gets it
  errorMessage,       \* the error message the orchestrator derives from it
  searchTerm,         \* InvoiceList: useState('')
  statusFilter,       \* InvoiceList: useState('all')
  currentPage,        \* InvoiceList: useState(1)
  exported,           \* history: the last export of the result set shown
  editingInvoice,     \* InvoiceList: useState(null), the id of the result edited
  lastSave            \* history: the last editor save on the result set shown

appVars == <<variant, files, processedInvoices, isProcessing, currentView,
             chatSessionId, processingStatus, runs, emitted,
             completeCalls, adoptCalls, lastAdopt, firstSid, sessionFresh,
             lastCreate, lastRemove>>

chatVars == <<isOpen, messages, inputValue, isLoading, chatReqs, deadReqs,
              lastSend, lastDelete>>

errVars == <<failure, errorMessage>>

editVars == <<editingInvoice, lastSave>>

listVars == <<searchTerm, statusFilter, currentPage, exported, editVars>>

\* what the App and InvoiceProcessor steps leave alone
panelVars == <<chatVars, errVars, listVars>>

\* what the ChatInterface steps leave alone
offChat == <<errVars, listVars>>

vars == <<appVars, chatVars, errVars, listVars>>

histVars == <<emitted, completeCalls, adoptCalls, lastAdopt, firstSid,
              sessionFresh, lastCreate, lastRemove>>

\* ----------------------------------------------------------------- helpers
Ids(fs) == [k \in 1..Len(fs) |-> fs[k].id]

IdSet(fs) == {fs[k].id : k \in 1..Len(fs)}

FileRecord(id) == [id |-> id]

NoStatus == [id \in FileIds |-> "none"]

IdleRun == [pc |-> "idle", files |-> <<>>, i |-> 0, results |-> <<>>,
            sessionId |-> Null, age |-> "live", attempted |-> <<>>,
            creates |-> 0, outcomes |-> <<>>]

NoEmit == [valid |-> FALSE, batch |-> <<>>, results |-> <<>>,
           attempted |-> <<>>, age |-> "live", outcomes |-> <<>>]

NoCreate == [kind |-> "none", sid |-> Null]

NoRemove == [valid |-> FALSE, id |-> 0, before |-> <<>>]

NoSend == [tick |-> FALSE, sent |-> FALSE]

NoExport == [format |-> "none", done |-> FALSE, rows |-> <<>>]

NoInvoice == 0

NoSave == [id |-> NoInvoice, data |-> Null]

NoFailure == [kind |-> "none", detail |-> Null, error |-> Null, message |-> Null]

FreeSlotsOf(rs) == {r \in Slots : rs[r].pc = "idle"}

FirstFreeOf(rs) == CHOOSE r \in FreeSlotsOf(rs) : \A q \in FreeSlotsOf(rs) : r <= q

\* ------------------------------------------------------------- responses
\* What /process-document can do to one request: success with or without a
\* session id, success:false with an error text, or an exception.
ProcessOutcomes ==
  [kind : {"ok"}, sid : SessionIds \cup {Null}, err : {Null}]
    \cup [kind : {"fail"}, sid : {Null}, err : ServiceErrors]
    \cup [kind : {"throw"}, sid : {Null}, err : {NetworkError}]

\* What /create-session can do.
CreateOutcomes ==
  [kind : {"ok"}, sid : SessionIds]
    \cup [kind : {"fail", "throw"}, sid : {Null}]

InitApp ==
  /\ files = <<>>
  /\ processedInvoices = <<>>
  /\ isProcessing = FALSE
  /\ currentView = "upload"
  /\ chatSessionId = Null
  /\ processingStatus = NoStatus
  /\ runs = [r \in Slots |-> IdleRun]
  /\ emitted = NoEmit
  /\ completeCalls = 0
  /\ adoptCalls = 0
  /\ lastAdopt = Null
  /\ firstSid = Null
  /\ sessionFresh = FALSE
  /\ lastCreate = NoCreate
  /\ lastRemove = NoRemove

\* ChatInterface as mounted, and nothing sent or deleted yet.
InitChat ==
  /\ isOpen = FALSE
  /\ messages = <<>>
  /\ inputValue = <<>>
  /\ isLoading = FALSE
  /\ chatReqs = <<>>
  /\ deadReqs = 0
  /\ lastSend = NoSend
  /\ lastDelete = "none"

\* no failure reported yet
InitError ==
  /\ failure = NoFailure
  /\ errorMessage = Null

\* InvoiceList as mounted, nothing exported yet
InitList ==
  /\ searchTerm = <<>>
  /\ statusFilter = "all"
  /\ currentPage = 1
  /\ exported = NoExport
  /\ editingInvoice = NoInvoice
  /\ lastSave = NoSave

InitPanels == InitChat /\ InitError /\ InitList

Init == variant = "inline" /\ InitApp /\ InitPanels

InitCreate == variant = "create" /\ InitApp /\ InitPanels

\* ------------------------------------------------------------ App handlers
\* The id of a new record: a random token.  Ids are opaque and the tokens
\* are taken to be distinct here, so up to renaming the new record gets the
\* smallest id not in the list.
NewIdChoices(fs) ==
  {id \in FileIds \ IdSet(fs) : \A other \in FileIds \ IdSet(fs) : id <= other}

\* addFiles: one record per selected file, appended to the list.
addFiles(id) ==
  /\ currentView = "upload"
  /\ Len(files) < MaxFiles
  /\ id \in NewIdChoices(files)
  /\ files' = files \o <<FileRecord(id)>>
  /\ UNCHANGED <<variant, processedInvoices, isProcessing, currentView,
                 chatSessionId, processingStatus, runs>>
  /\ UNCHANGED histVars
  /\ UNCHANGED panelVars

\* The status map after the synchronous prefix of processInvoices: the
\* inline variant merges 'processing' for every file into the previous map;
\* the session-creation variant replaces the map by all-pending and its first
\* loop iteration marks the first file 'processing' before the first await.
InitialStatus(v, st, fs) ==
  IF v = "inline"
  THEN [id \in FileIds |-> IF id \in IdSet(fs) THEN "processing" ELSE st[id]]
  ELSE [id \in FileIds |->
          IF id = fs[1].id THEN "processing"
          ELSE IF id \in IdSet(fs) THEN "pending" ELSE "none"]

\* A fresh invocation of processInvoices, suspended at its first await
\* (fileToBase64 of the first file).
NewRun(fs) ==
  [pc |-> "encoding", files |-> fs, i |-> 1, results |-> <<>>,
   sessionId |-> Null, age |-> "live", attempted |-> <<fs[1].id>>,
   creates |-> 0, outcomes |-> <<>>]

\* The processing effect: App rendered again, so InvoiceProcessor got a new
\* onProcessingComplete function, processInvoices was re-created and the
\* effect runs; it calls processInvoices when isProcessing is set and there
\* are files.  InvoiceProcessor is mounted in the results view only.
EffectFires(view, proc, fs) == view = "results" /\ proc /\ Len(fs) > 0

Age(run, to) ==
  IF run.pc = "idle" THEN run
  ELSE [run EXCEPT !.age = IF to = "stale" THEN "stale"
                            ELSE IF @ = "live" THEN "orphan" ELSE @]

\* processFiles, the render it causes, the mount of InvoiceProcessor and the
\* first firing of the processing effect.
processFiles ==
  /\ currentView = "upload"
  /\ ~isProcessing                      \* the button is disabled while processing
  /\ Len(files) # 0
  /\ FreeSlotsOf(runs) # {}
  /\ isProcessing' = TRUE
  /\ currentView' = "results"
  /\ processingStatus' = InitialStatus(variant, NoStatus, files)
  /\ runs' = [r \in Slots |-> IF r = FirstFreeOf(runs) THEN NewRun(files)
                              ELSE Age(runs[r], "stale")]
  /\ emitted' = NoEmit
  /\ completeCalls' = 0
  /\ adoptCalls' = 0
  /\ firstSid' = Null
  /\ sessionFresh' = FALSE
  /\ lastCreate' = NoCreate
  /\ lastRemove' = NoRemove
  /\ UNCHANGED <<variant, files, processedInvoices, chatSessionId, lastAdopt>>
  /\ UNCHANGED panelVars

\* resetApp: files and results cleared, back to the upload view; the
\* InvoiceProcessor is unmounted (its status map is dropped), the
\* invocations of processInvoices in flight are not cancelled, and neither
\* isProcessing nor chatSessionId is touched.
resetApp ==
  /\ currentView = "results"
  /\ files' = <<>>
  /\ processedInvoices' = <<>>
  /\ currentView' = "upload"
  /\ processingStatus' = NoStatus
  /\ runs' = [r \in Slots |-> Age(runs[r], "orphan")]
  /\ sessionFresh' = FALSE
  /\ emitted' = NoEmit
  /\ UNCHANGED <<variant, isProcessing, chatSessionId,
                 completeCalls, adoptCalls, lastAdopt, firstSid, lastCreate>>
  /\ lastRemove' = NoRemove
  /\ UNCHANGED panelVars

\* ------------------------------------------------- processInvoices, pieces
SuccessResult(id) == [id |-> id, status |-> "success", error |-> Null]

ErrorResult(id, msg) == [id |-> id, status |-> "error", error |-> msg]

\* (mutant) a failure message that ignores the error text of the response
FailureMessageGeneric(o) == ProcessingFailed

\* The message of a failed item: result.error || 'Processing failed' for a
\* success:false body, error.message || 'Processing failed' for an exception.
FailureMessage(o) == IF o.err = Null THEN ProcessingFailed ELSE o.err

\* (mutant) a failure branch that forgets to push its error result
PushErrorDropped(v, results, id, msg) == results

\* What the failure branches add to processedResults: the inline variant
\* pushes an error result, the session-creation variant pushes nothing (its
\* catch block only updates the status list).
PushError(v, results, id, msg) ==
  IF v = "inline" THEN Append(results, ErrorResult(id, msg)) ELSE results

\* setProcessingStatus for one id; a state update of an unmounted component
\* is dropped.
SetStatus(run, st, id, value) ==
  IF run.age = "live" THEN [st EXCEPT ![id] = value] ELSE st

\* if (!sessionId && result.session_id), inline variant only.
AdoptsSession(v, run, o) ==
  v = "inline" /\ o.kind = "ok" /\ run.sessionId = Null /\ o.sid # Null

\* (mutant) a setter that keeps an id already set
AdoptFirstWins(cur, id) == IF cur # Null THEN cur ELSE id

\* onSessionCreated is App's setChatSessionId: a plain state setter.
Adopt(cur, id) == id

\* (mutant) a loop that stops at the first failed item
HasNextUnlessError(run, st) == run.i < Len(run.files) /\ st # "error"

\* for (const file of files): the loop goes on while files remain.
HasNext(run, st) == run.i < Len(run.files)

\* (mutant) a session created whatever the results
ShouldCreateAlways(v, results) == v = "create"

\* if (processedResults.length > 0), session-creation variant only.
ShouldCreateSession(v, results) == v = "create" /\ Len(results) > 0

\* (mutant) a run that never calls onProcessingComplete
ProcessingStays(proc, more, creating) == proc

\* isProcessing after the continuation: onProcessingComplete, which is
\* setIsProcessing(false), is called when the loop is over and no
\* /create-session call is awaited.
ProcessingAfter(proc, more, creating) == IF more \/ creating THEN proc ELSE FALSE

\* App state changed, App rendered again, and the processing effect fired:
\* the invocations and the status map after that.
Rerender(changed, proc, rs, st) ==
  IF changed /\ EffectFires(currentView, proc, files)
  THEN [runs |-> [rs EXCEPT ![FirstFreeOf(rs)] = NewRun(files)],
        status |-> InitialStatus(variant, st, files)]
  ELSE [runs |-> rs, status |-> st]

CanRerender(changed, proc, rs) ==
  (changed /\ EffectFires(currentView, proc, files)) => FreeSlotsOf(rs) # {}

\* The rest of the continuation once item i of run r has settled with status
\* st: status update, then the next iteration up to its first await, or the
\* code after the loop up to its first await or its end; then the render of
\* the batched state updates.
ItemSettled(r, st, resultsNew, o) ==
  LET run == runs[r]
      id == run.files[run.i].id
      adopts == AdoptsSession(variant, run, o)
      sessionNew == IF adopts THEN Adopt(chatSessionId, o.sid) ELSE chatSessionId
      status1 == SetStatus(run, processingStatus, id, st)
      gotSid == variant = "inline" /\ o.kind = "ok" /\ o.sid # Null
      more == HasNext(run, st)
      outcomesNew == Append(run.outcomes, [kind |-> o.kind, err |-> o.err])
      creating == ~more /\ ShouldCreateSession(variant, resultsNew)
      procNew == ProcessingAfter(isProcessing, more, creating)
      status2 == IF more /\ variant = "create"
                 THEN SetStatus(run, status1, run.files[run.i + 1].id, "processing")
                 ELSE status1
      runs2 == [runs EXCEPT ![r] =
                  IF more
                  THEN [run EXCEPT !.i = @ + 1, !.pc = "encoding",
                                   !.results = resultsNew,
                                   !.sessionId = IF adopts THEN o.sid ELSE @,
                                   !.outcomes = outcomesNew,
                                   !.attempted = Append(@, run.files[run.i + 1].id)]
                  ELSE IF creating
                  THEN [run EXCEPT !.pc = "creating", !.results = resultsNew,
                                   !.creates = @ + 1,
                                   !.outcomes = outcomesNew]
                  ELSE IdleRun]
      changed == sessionNew # chatSessionId \/ ~more
      after == Rerender(changed, procNew, runs2, status2)
  IN
  /\ CanRerender(changed, procNew, runs2)
  /\ chatSessionId' = sessionNew
  /\ adoptCalls' = IF adopts /\ run.age # "stale" THEN adoptCalls + 1 ELSE adoptCalls
  /\ lastAdopt' = IF adopts THEN o.sid ELSE lastAdopt
  /\ sessionFresh' = IF adopts THEN run.age = "live" ELSE sessionFresh
  /\ firstSid' = IF gotSid /\ run.age # "stale" /\ firstSid = Null
                 THEN o.sid ELSE firstSid
  /\ processedInvoices' = IF more THEN processedInvoices ELSE resultsNew
  /\ emitted' = IF more THEN emitted
                ELSE [valid |-> TRUE, batch |-> run.files, results |-> resultsNew,
                      attempted |-> run.attempted, age |-> run.age,
                      outcomes |-> outcomesNew]
  /\ isProcessing' = procNew
  /\ completeCalls' = IF ~more /\ ~creating /\ run.age # "stale"
                      THEN completeCalls + 1 ELSE completeCalls
  /\ runs' = after.runs
  /\ processingStatus' = after.status
  /\ UNCHANGED <<variant, files, currentView, lastCreate, lastRemove>>
  /\ UNCHANGED panelVars

\* fileToBase64 settles: on success the /process-document request is issued,
\* on a reader error the catch block runs.
EncodeSettles(r, ok) ==
  /\ runs[r].pc = "encoding"
  /\ LET run == runs[r]
         id == run.files[run.i].id
     IN
     IF ok
     THEN /\ runs' = [runs EXCEPT ![r] = [run EXCEPT !.pc = "calling"]]
          /\ UNCHANGED <<variant, files, processedInvoices, isProcessing,
                         currentView, chatSessionId, processingStatus>>
          /\ UNCHANGED histVars
          /\ UNCHANGED panelVars
     ELSE ItemSettled(r, "error",
                      PushError(variant, run.results, id, ProcessingFailed),
                      [kind |-> "throw", sid |-> Null, err |-> Null])

\* documentAPI.processDocument settles with outcome o.
CallSettles(r, o) ==
  /\ runs[r].pc = "calling"
  /\ LET run == runs[r]
         id == run.files[run.i].id
     IN
     IF o.kind = "ok"
     THEN ItemSettled(r, "completed", Append(run.results, SuccessResult(id)), o)
     ELSE ItemSettled(r, "error",
                      PushError(variant, run.results, id, FailureMessage(o)), o)

\* chatAPI.createSession settles (session-creation variant): the id is
\* published on success:true, a failure is only logged; then
\* onProcessingComplete, and the render (isProcessing is false by then, so
\* the effect starts nothing).
CreateSettles(r, o) ==
  /\ runs[r].pc = "creating"
  /\ chatSessionId' = IF o.kind = "ok" THEN Adopt(chatSessionId, o.sid)
                      ELSE chatSessionId
  /\ adoptCalls' = IF o.kind = "ok" /\ runs[r].age # "stale"
                   THEN adoptCalls + 1 ELSE adoptCalls
  /\ lastAdopt' = IF o.kind = "ok" THEN o.sid ELSE lastAdopt
  /\ sessionFresh' = IF o.kind = "ok" THEN runs[r].age = "live" ELSE sessionFresh
  /\ lastCreate' = [kind |-> o.kind, sid |-> o.sid]
  /\ UNCHANGED lastRemove
  /\ runs' = [runs EXCEPT ![r] = IdleRun]
  /\ isProcessing' = FALSE
  /\ completeCalls' = IF runs[r].age # "stale" THEN completeCalls + 1
                      ELSE completeCalls
  /\ UNCHANGED <<variant, files, processedInvoices, currentView,
                 processingStatus, emitted, firstSid>>
  /\ UNCHANGED panelVars

Next ==
  \/ \E id \in FileIds : addFiles(id)
  \/ processFiles
  \/ resetApp
  \/ \E r \in Slots, ok \in BOOLEAN : EncodeSettles(r, ok)
  \/ \E r \in Slots, o \in ProcessOutcomes : CallSettles(r, o)

NextCreate ==
  \/ \E id \in FileIds : addFiles(id)
  \/ processFiles
  \/ resetApp
  \/ \E r \in Slots, ok \in BOOLEAN : EncodeSettles(r, ok)
  \/ \E r \in Slots, o \in ProcessOutcomes : CallSettles(r, o)
  \/ \E r \in Slots, o \in CreateOutcomes : CreateSettles(r, o)

\* Every await settles: the file reader answers, and every HTTP call ends in
\* a response, an error or the client's timeout.
Settling ==
  /\ \A r \in Slots : WF_vars(\E ok \in BOOLEAN : EncodeSettles(r, ok))
  /\ \A r \in Slots : WF_vars(\E o \in ProcessOutcomes : CallSettles(r, o))

\* the inline-session deployment
Spec == Init /\ [][Next]_vars

\* the inline-session deployment, every await settling
LiveSpec == Init /\ [][Next]_vars /\ Settling

\* the session-creation deployment
SpecCreate == InitCreate /\ [][NextCreate]_vars

\* ------------------------------------------------------------ file intake
\* The ids of the records addFiles makes for the files selected: each is
\* Math.random().toString(36).substr(2, 9), drawn without a look at the ids
\* in use, so any token can come out, one in use or one drawn twice included.
Selections ==
  UNION {[1..n -> FileIds] : n \in 1..MaxSelected}

\* addFiles with the tokens as drawn: one record per selected file, appended.
addFilesRandom(tokens) ==
  /\ currentView = "upload"
  /\ Len(files) + Len(tokens) <= MaxIntake
  /\ files' = files \o [k \in 1..Len(tokens) |-> FileRecord(tokens[k])]
  /\ lastRemove' = NoRemove
  /\ UNCHANGED <<variant, processedInvoices, isProcessing, currentView,
                 chatSessionId, processingStatus, runs>>
  /\ UNCHANGED <<emitted, completeCalls, adoptCalls, lastAdopt, firstSid,
                 sessionFresh, lastCreate>>
  /\ UNCHANGED panelVars

\* (mutant) a removal that stops at the first record with the id
RemoveFirst(fs, fileId) ==
  LET hits == {k \in 1..Len(fs) : fs[k].id = fileId}
      first == CHOOSE k \in hits : \A m \in hits : k <= m
  IN IF hits = {} THEN fs
     ELSE SubSeq(fs, 1, first - 1) \o SubSeq(fs, first + 1, Len(fs))

\* prev.filter(file => file.id !== fileId)
RemoveById(fs, fileId) == SelectSeq(fs, LAMBDA f : f.id # fileId)

\* removeFile: the remove button of a record of the list.
removeFile(fileId) ==
  /\ currentView = "upload"
  /\ fileId \in IdSet(files)
  /\ files' = RemoveById(files, fileId)
  /\ lastRemove' = [valid |-> TRUE, id |-> fileId, before |-> files]
  /\ UNCHANGED <<variant, processedInvoices, isProcessing, currentView,
                 chatSessionId, processingStatus, runs>>
  /\ UNCHANGED <<emitted, completeCalls, adoptCalls, lastAdopt, firstSid,
                 sessionFresh, lastCreate>>
  /\ UNCHANGED panelVars

NextIntake ==
  \/ \E tokens \in Selections : addFilesRandom(tokens)
  \/ \E fileId \in FileIds : removeFile(fileId)
  \/ processFiles
  \/ resetApp

\* file intake with the ids as the generator draws them, and the start of
\* a batch
SpecIntake == Init /\ [][NextIntake]_vars

\* ---------------------------------------------------------- ChatInterface
\* Text is a sequence of characters; a blank and a letter are enough to tell
\* what trim does.
Chars == {" ", "a"}

Inputs == UNION {[1..n -> Chars] : n \in 0..MaxInput}

RECURSIVE TrimStart(_)
TrimStart(s) == IF s # <<>> /\ Head(s) = " " THEN TrimStart(Tail(s)) ELSE s

RECURSIVE TrimEnd(_)
TrimEnd(s) ==
  IF s # <<>> /\ s[Len(s)] = " " THEN TrimEnd(SubSeq(s, 1, Len(s) - 1)) ELSE s

\* String.prototype.trim
Trim(s) == TrimEnd(TrimStart(s))

FallbackText ==
  "Sorry, I encountered an error while processing your message. Please try again."

Answers == {"answer"}

\* What /chat can do: success with a response text, success:false, or an
\* exception (non-2xx status, network error, timeout).
ChatOutcomes ==
  [kind : {"ok"}, text : Answers] \cup [kind : {"fail", "throw"}, text : {Null}]

\* What DELETE /session/<id> can do.
DeleteOutcomes == {"ok", "status", "timeout"}

\* A transcript entry; re and how are history fields: the question of the
\* request the entry belongs to, and how that request settled.
UserMessage(text) ==
  [type |-> "user", content |-> text, re |-> text, how |-> "sent"]

AssistantMessage(content, req, o) ==
  [type |-> "assistant", content |-> content, re |-> req.text, how |-> o.kind]

\* InvoiceList, and ChatInterface inside it, are rendered in the results
\* view only.
ChatMounted == currentView = "results"

\* (mutant) a guard that tests the input without trimming it
SendRejectedUntrimmed(input, loading, sid) ==
  input = <<>> \/ loading \/ sid = Null

\* if (!inputValue.trim() || isLoading || !sessionId) return;
SendRejected(input, loading, sid) ==
  Trim(input) = <<>> \/ loading \/ sid = Null

\* setCurrentView('results') as ChatInterface sees it: mounted with its
\* initial state.
ShowResults ==
  /\ currentView = "upload"
  /\ currentView' = "results"
  /\ UNCHANGED <<variant, files, processedInvoices, isProcessing,
                 chatSessionId, processingStatus, runs>>
  /\ UNCHANGED histVars
  /\ UNCHANGED panelVars

\* resetApp as InvoiceList and ChatInterface see it: the results are
\* cleared and both are unmounted, their state is lost; a /chat request
\* awaited stays in flight.
ShowUpload ==
  /\ currentView = "results"
  /\ deadReqs + Len(chatReqs) <= MaxDead
  /\ currentView' = "upload"
  /\ deadReqs' = deadReqs + Len(chatReqs)
  /\ isOpen' = FALSE
  /\ messages' = <<>>
  /\ inputValue' = <<>>
  /\ isLoading' = FALSE
  /\ chatReqs' = <<>>
  /\ processedInvoices' = <<>>
  /\ searchTerm' = <<>>
  /\ statusFilter' = "all"
  /\ currentPage' = 1
  /\ exported' = NoExport
  /\ editingInvoice' = NoInvoice
  /\ lastSave' = NoSave
  /\ UNCHANGED <<variant, files, isProcessing, chatSessionId,
                 processingStatus, runs, lastSend, lastDelete>>
  /\ UNCHANGED histVars
  /\ UNCHANGED errVars

\* onSessionCreated as ChatInterface sees it: the sessionId prop changes.
setChatSessionId(id) ==
  /\ chatSessionId' = Adopt(chatSessionId, id)
  /\ chatSessionId' # chatSessionId
  /\ UNCHANGED <<variant, files, processedInvoices, isProcessing, currentView,
                 processingStatus, runs>>
  /\ UNCHANGED histVars
  /\ UNCHANGED panelVars

\* the launcher button and the close button
setIsOpen(open) ==
  /\ ChatMounted
  /\ isOpen # open
  /\ isOpen' = open
  /\ UNCHANGED appVars
  /\ UNCHANGED offChat
  /\ UNCHANGED <<messages, inputValue, isLoading, chatReqs, deadReqs,
                 lastSend, lastDelete>>

\* onChange of the input, which is disabled={isLoading || !sessionId}
setInputValue(v) ==
  /\ ChatMounted /\ isOpen
  /\ ~(isLoading \/ chatSessionId = Null)
  /\ v # inputValue
  /\ inputValue' = v
  /\ UNCHANGED appVars
  /\ UNCHANGED offChat
  /\ UNCHANGED <<isOpen, messages, isLoading, chatReqs, deadReqs,
                 lastSend, lastDelete>>

\* handleSend up to its await: the guard, then the user message and the
\* /chat request.
handleSend ==
  /\ ChatMounted /\ isOpen
  /\ IF SendRejected(inputValue, isLoading, chatSessionId)
     THEN /\ lastSend' = [tick |-> ~lastSend.tick, sent |-> FALSE]
          /\ UNCHANGED <<isOpen, messages, inputValue, isLoading, chatReqs,
                         deadReqs, lastDelete>>
     ELSE /\ Len(messages) + 2 <= MaxMessages
          /\ inputValue' = <<>>
          /\ isLoading' = TRUE
          /\ messages' = Append(messages, UserMessage(Trim(inputValue)))
          /\ chatReqs' = Append(chatReqs, [sid |-> chatSessionId,
                                           text |-> Trim(inputValue)])
          /\ lastSend' = [tick |-> ~lastSend.tick, sent |-> TRUE]
          /\ UNCHANGED <<isOpen, deadReqs, lastDelete>>
  /\ UNCHANGED appVars
  /\ UNCHANGED offChat

\* (mutant) a failure that appends nothing
ReplyMessagesSilent(msgs, req, o) ==
  IF o.kind = "ok" THEN Append(msgs, AssistantMessage(o.text, req, o)) ELSE msgs

\* (mutant) a reply put at the head of the transcript
ReplyMessagesFirst(msgs, req, o) ==
  IF o.kind = "ok" THEN <<AssistantMessage(o.text, req, o)>> \o msgs
  ELSE <<AssistantMessage(FallbackText, req, o)>> \o msgs

\* The transcript after the request settled: the answer on success:true,
\* the fallback text on success:false (thrown into the catch) or an exception.
ReplyMessages(msgs, req, o) ==
  IF o.kind = "ok" THEN Append(msgs, AssistantMessage(o.text, req, o))
  ELSE Append(msgs, AssistantMessage(FallbackText, req, o))

\* chatAPI.sendMessage settles for request k of the mounted ChatInterface:
\* try / catch / finally of handleSend.
ChatSettles(k, o) ==
  /\ k \in 1..Len(chatReqs)
  /\ messages' = ReplyMessages(messages, chatReqs[k], o)
  /\ isLoading' = FALSE
  /\ chatReqs' = SubSeq(chatReqs, 1, k - 1)
                   \o SubSeq(chatReqs, k + 1, Len(chatReqs))
  /\ UNCHANGED appVars
  /\ UNCHANGED offChat
  /\ UNCHANGED <<isOpen, inputValue, deadReqs, lastSend, lastDelete>>

\* chatAPI.sendMessage settles for an unmounted ChatInterface: its state
\* updates are dropped.
DeadChatSettles(o) ==
  /\ deadReqs > 0
  /\ deadReqs' = deadReqs - 1
  /\ UNCHANGED appVars
  /\ UNCHANGED offChat
  /\ UNCHANGED <<isOpen, messages, inputValue, isLoading, chatReqs,
                 lastSend, lastDelete>>

\* chatAPI.deleteSession(chatSessionId) settles: the response body is
\* returned, or the rejection of the HTTP client goes to the caller; App's
\* state is not touched.
deleteSession(o) ==
  /\ chatSessionId # Null
  /\ lastDelete' = IF o = "ok" THEN "returned" ELSE "raised"
  /\ UNCHANGED appVars
  /\ UNCHANGED offChat
  /\ UNCHANGED <<isOpen, messages, inputValue, isLoading, chatReqs, deadReqs,
                 lastSend>>

NextChat ==
  \/ ShowResults
  \/ ShowUpload
  \/ \E id \in SessionIds : setChatSessionId(id)
  \/ \E open \in BOOLEAN : setIsOpen(open)
  \/ \E v \in Inputs : setInputValue(v)
  \/ handleSend
  \/ \E k \in 1..MaxMessages, o \in ChatOutcomes : ChatSettles(k, o)
  \/ \E o \in ChatOutcomes : DeadChatSettles(o)
  \/ \E o \in DeleteOutcomes : deleteSession(o)

\* the chat panel and the session, the batch orchestration left out
SpecChat == Init /\ [][NextChat]_vars

\* the chat panel, every /chat request settling
ChatSettling ==
  /\ WF_vars(\E k \in 1..MaxMessages, o \in ChatOutcomes : ChatSettles(k, o))
  /\ WF_vars(\E o \in ChatOutcomes : DeadChatSettles(o))

LiveSpecChat == Init /\ [][NextChat]_vars /\ ChatSettling

\* ------------------------------------------------- error message of an item
\* A failed extraction call as the orchestrator receives it:
\*   body       a 2xx response whose body has success:false and maybe error;
\*   http       a non-2xx response, rejected by the HTTP client with its
\*              generic message, the body (detail, error) in error.response.data;
\*   transport  no response: a network error, the client's timeout, or a
\*              file reader error event, which has no message.
ErrorTexts == {"unsupported format", "file too large"}

DetailTexts == {"invalid document", "internal error"}

HttpStatuses == {400, 422, 500}

HttpDescription(status) == <<"Request failed with status code", status>>

TransportMessages == {"Network Error", "timeout of 120000ms exceeded"}

Failures ==
  [kind : {"body"}, detail : {Null}, error : ErrorTexts \cup {Null, ""},
   message : {Null}]
    \cup [kind : {"http"}, detail : DetailTexts \cup {Null},
          error : ErrorTexts \cup {Null},
          message : {HttpDescription(st) : st \in HttpStatuses}]
    \cup [kind : {"transport"}, detail : {Null}, error : {Null},
          message : TransportMessages \cup {Null}]

\* JavaScript falsiness of an optional string
Falsy(x) == x = Null \/ x = ""

\* a || b
OrElse(a, b) == IF Falsy(a) THEN b ELSE a

\* What the catch block of the session-creation variant receives: the
\* rejection of the call, or the Error its success:false branch throws.
Thrown(f) ==
  IF f.kind = "body"
  THEN [kind |-> "transport", detail |-> Null, error |-> Null,
        message |-> OrElse(f.error, ProcessingFailed)]
  ELSE f

\* The message of a failed item.  Inline variant: result.error ||
\* 'Processing failed' for a success:false body, error.message ||
\* 'Processing failed' in the catch block.  Session-creation variant:
\* error.response.data.detail, else error.message, else
\* error.response.data.error, else 'Processing failed'.
ErrorMessage(v, f) ==
  IF v = "inline"
  THEN IF f.kind = "body" THEN OrElse(f.error, ProcessingFailed)
       ELSE OrElse(f.message, ProcessingFailed)
  ELSE IF ~Falsy(Thrown(f).detail) THEN Thrown(f).detail
       ELSE IF ~Falsy(Thrown(f).message) THEN Thrown(f).message
       ELSE IF ~Falsy(Thrown(f).error) THEN Thrown(f).error
       ELSE ProcessingFailed

\* One failed call in either variant.
InitFailure ==
  /\ variant \in {"inline", "create"}
  /\ InitApp /\ InitChat /\ InitList
  /\ failure \in Failures
  /\ errorMessage = Null

\* the failure branch of the loop body derives the item's message
reportFailure ==
  /\ failure # NoFailure
  /\ errorMessage = Null
  /\ errorMessage' = ErrorMessage(variant, failure)
  /\ UNCHANGED <<appVars, chatVars, listVars, failure>>

NextFailure == reportFailure

\* the derivation of an item's error message
SpecFailure == InitFailure /\ [][NextFailure]_vars

\* ------------------------------------------------------------ InvoiceList
itemsPerPage == 20

LetterChars == {"a", "A", "b"}

\* A result as InvoiceList reads it: names are sequences of characters, an
\* absent vendor name or invoice number reads as the empty text.
InvoiceKinds ==
  { [status |-> "success", document_name |-> <<"b">>, vendor_name |-> <<"A">>,
     invoice_number |-> <<>>],
    [status |-> "error", document_name |-> <<"A", "b">>, vendor_name |-> <<>>,
     invoice_number |-> <<>>],
    [status |-> "success", document_name |-> <<"b">>, vendor_name |-> <<>>,
     invoice_number |-> <<"a">>],
    [status |-> "success", document_name |-> <<"b">>, vendor_name |-> <<"b">>,
     invoice_number |-> <<>>] }

\* the result of kind k at position n of a result set
Invoice(n, k) ==
  [id |-> n, status |-> k.status, document_name |-> k.document_name,
   vendor_name |-> k.vendor_name, invoice_number |-> k.invoice_number]

\* The result sets handed to InvoiceList: every short one, and the ones of
\* one result more than a page, a first result followed by equal ones.
ResultSets ==
  UNION {{[n \in 1..len |-> Invoice(n, ks[n])] : ks \in [1..len -> InvoiceKinds]}
           : len \in 0..MaxInvoices}
    \cup {[n \in 1..(itemsPerPage + 1) |-> Invoice(n, IF n = 1 THEN x ELSE y)]
            : x \in InvoiceKinds, y \in InvoiceKinds}

SearchTerms == {<<>>, <<"a">>, <<"A">>, <<"b">>}

StatusFilters == {"all", "success", "error"}

\* String.prototype.toLowerCase
ToLower(s) == [k \in 1..Len(s) |-> IF s[k] = "A" THEN "a" ELSE s[k]]

\* String.prototype.includes
Includes(s, t) ==
  \E k \in 0..(Len(s) - Len(t)) : SubSeq(s, k + 1, k + Len(t)) = t

MatchesSearch(inv, term) ==
  \/ Includes(ToLower(inv.document_name), ToLower(term))
  \/ Includes(ToLower(inv.vendor_name), ToLower(term))
  \/ Includes(ToLower(inv.invoice_number), ToLower(term))

\* (mutant) a status filter that lets every status through
MatchesStatusAny(inv, f) == TRUE

MatchesStatus(inv, f) == f = "all" \/ inv.status = f

\* invoices.filter(...)
Filter(invs, term, f) ==
  SelectSeq(invs, LAMBDA inv : MatchesSearch(inv, term) /\ MatchesStatus(inv, f))

filteredInvoices == Filter(processedInvoices, searchTerm, statusFilter)

\* Math.ceil(filteredInvoices.length / itemsPerPage)
totalPages == (Len(filteredInvoices) + itemsPerPage - 1) \div itemsPerPage

Min(a, b) == IF a < b THEN a ELSE b

Max(a, b) == IF a > b THEN a ELSE b

\* filteredInvoices.slice(startIndex, endIndex)
currentInvoices ==
  SubSeq(filteredInvoices, (currentPage - 1) * itemsPerPage + 1,
         Min((currentPage - 1) * itemsPerPage + itemsPerPage,
             Len(filteredInvoices)))

\* one row of the export; re is a history field, the id of the result
ExportRow(inv) ==
  [Document |-> inv.document_name, Vendor |-> inv.vendor_name,
   InvoiceNumber |-> inv.invoice_number, re |-> inv.id]

\* invoices.filter(inv => inv.status === 'success').map(...)
glReadyData(invs) ==
  LET ok == SelectSeq(invs, LAMBDA inv : inv.status = "success")
  IN [k \in 1..Len(ok) |-> ExportRow(ok[k])]

\* onProcessed: a new result set reaches InvoiceList
setProcessedInvoices(rs) ==
  /\ rs # processedInvoices
  /\ processedInvoices' = rs
  /\ exported' = NoExport
  /\ lastSave' = NoSave
  /\ UNCHANGED editingInvoice
  /\ UNCHANGED <<variant, files, isProcessing, currentView, chatSessionId,
                 processingStatus, runs>>
  /\ UNCHANGED histVars
  /\ UNCHANGED <<chatVars, errVars>>
  /\ UNCHANGED <<searchTerm, statusFilter, currentPage>>

setSearchTerm(t) ==
  /\ ChatMounted
  /\ t # searchTerm
  /\ searchTerm' = t
  /\ UNCHANGED <<appVars, chatVars, errVars>>
  /\ UNCHANGED <<statusFilter, currentPage, exported>>
  /\ UNCHANGED editVars

setStatusFilter(f) ==
  /\ ChatMounted
  /\ f # statusFilter
  /\ statusFilter' = f
  /\ UNCHANGED <<appVars, chatVars, errVars>>
  /\ UNCHANGED <<searchTerm, currentPage, exported>>
  /\ UNCHANGED editVars

\* the previous-page button: rendered when totalPages > 1, disabled on page 1
previousPage ==
  /\ ChatMounted
  /\ totalPages > 1
  /\ currentPage # 1
  /\ currentPage' = Max(currentPage - 1, 1)
  /\ UNCHANGED <<appVars, chatVars, errVars>>
  /\ UNCHANGED <<searchTerm, statusFilter, exported>>
  /\ UNCHANGED editVars

\* the next-page button: rendered when totalPages > 1, disabled on the
\* last page
nextPage ==
  /\ ChatMounted
  /\ totalPages > 1
  /\ currentPage # totalPages
  /\ currentPage' = Min(currentPage + 1, totalPages)
  /\ UNCHANGED <<appVars, chatVars, errVars>>
  /\ UNCHANGED <<searchTerm, statusFilter, exported>>
  /\ UNCHANGED editVars

\* exportToExcel: the sheet is written with the rows, none included
exportToExcel ==
  /\ ChatMounted
  /\ exported' = [format |-> "xlsx", done |-> TRUE,
                  rows |-> glReadyData(processedInvoices)]
  /\ UNCHANGED <<appVars, chatVars, errVars>>
  /\ UNCHANGED <<searchTerm, statusFilter, currentPage>>
  /\ UNCHANGED editVars

\* exportToCSV: Object.keys(glReadyData[0]) throws a TypeError when there is
\* no row, and then nothing is written
exportToCSV ==
  /\ ChatMounted
  /\ exported' = [format |-> "csv",
                  done |-> glReadyData(processedInvoices) # <<>>,
                  rows |-> glReadyData(processedInvoices)]
  /\ UNCHANGED <<appVars, chatVars, errVars>>
  /\ UNCHANGED <<searchTerm, statusFilter, currentPage>>
  /\ UNCHANGED editVars

\* What the editor hands to onSave: the form fields as the user left them.
Edits ==
  [vendor_name : {<<"a">>}, invoice_number : {<<>>, <<"b">>}]

\* invoices.map(inv => inv.id === editingInvoice.id
\*                       ? { ...inv, data: updatedData } : inv)
updatedInvoices(invs, id, d) ==
  [k \in 1..Len(invs) |->
     IF invs[k].id = id
     THEN [invs[k] EXCEPT !.vendor_name = d.vendor_name,
                          !.invoice_number = d.invoice_number]
     ELSE invs[k]]

\* the edit button of row j of the page shown, rendered for a success
setEditingInvoice(j) ==
  /\ ChatMounted
  /\ editingInvoice = NoInvoice
  /\ j \in 1..Len(currentInvoices)
  /\ currentInvoices[j].status = "success"
  /\ editingInvoice' = currentInvoices[j].id
  /\ lastSave' = NoSave
  /\ UNCHANGED <<appVars, chatVars, errVars>>
  /\ UNCHANGED <<searchTerm, statusFilter, currentPage, exported>>

\* onSave of the editor: updatedInvoices is computed and dropped, no setter
\* is called with it, and the editor is closed.
onSave(d) ==
  /\ ChatMounted
  /\ editingInvoice # NoInvoice
  /\ LET dropped == updatedInvoices(processedInvoices, editingInvoice, d)
     IN processedInvoices' = processedInvoices
  /\ editingInvoice' = NoInvoice
  /\ lastSave' = [id |-> editingInvoice, data |-> d]
  /\ UNCHANGED <<variant, files, isProcessing, currentView, chatSessionId,
                 processingStatus, runs>>
  /\ UNCHANGED histVars
  /\ UNCHANGED <<chatVars, errVars>>
  /\ UNCHANGED <<searchTerm, statusFilter, currentPage, exported>>

\* onClose of the editor
onClose ==
  /\ ChatMounted
  /\ editingInvoice # NoInvoice
  /\ editingInvoice' = NoInvoice
  /\ UNCHANGED lastSave
  /\ UNCHANGED <<appVars, chatVars, errVars>>
  /\ UNCHANGED <<searchTerm, statusFilter, currentPage, exported>>

NextList ==
  \/ ShowResults
  \/ ShowUpload
  \/ \E rs \in ResultSets : setProcessedInvoices(rs)
  \/ \E t \in SearchTerms : setSearchTerm(t)
  \/ \E f \in StatusFilters : setStatusFilter(f)
  \/ previousPage
  \/ nextPage
  \/ exportToExcel
  \/ exportToCSV

\* the result list: search, status filter, pages and exports
SpecList == Init /\ [][NextList]_vars

NextEdit ==
  \/ ShowResults
  \/ ShowUpload
  \/ \E rs \in ResultSets : setProcessedInvoices(rs)
  \/ \E j \in 1..itemsPerPage : setEditingInvoice(j)
  \/ \E d \in Edits : onSave(d)
  \/ onClose

\* the result list and its editor
SpecEdit == Init /\ [][NextEdit]_vars

\* ------------------------------------------------------------------ claims
Terminal == {"completed", "error"}

SameIds(results, batch) ==
  /\ Len(results) = Len(batch)
  /\ \A k \in 1..Len(batch) : results[k].id = batch[k].id

ActiveRuns == {r \in Slots : runs[r].pc # "idle"}

\* C1: in the inline variant the sequence a run passes to onProcessed has the
\* length of the run's batch and its i-th result carries the id of the i-th
\* file, whatever the outcomes of the items.
C1_LengthAndOrder ==
  (variant = "inline" /\ emitted.valid)
    => SameIds(emitted.results, emitted.batch)

\* C1 witness: a two-file batch published with an encoding failure first
\* and a success second.
C1_Witness ==
  /\ emitted.valid
  /\ Len(emitted.batch) = 2
  /\ emitted.results[1].status = "error"
  /\ emitted.results[1].error = ProcessingFailed
  /\ emitted.results[2].status = "success"

\* C2 (as stated): in the session-creation variant the sequence passed to
\* onProcessed has one result per input item in input order, failed items
\* included as error results.
C2_ErrorsCaptured ==
  (variant = "create" /\ emitted.valid)
    => /\ SameIds(emitted.results, emitted.batch)
       /\ \A k \in 1..Len(emitted.results) :
            emitted.results[k].status = "error" => emitted.results[k].error # Null

\* C3 (as stated): once onProcessingComplete was called for the batch shown,
\* every file id of the batch has status completed or error.
C3_AllTerminal ==
  (completeCalls >= 1 /\ currentView = "results")
    => \A id \in IdSet(files) : processingStatus[id] \in Terminal

\* C4 (as stated): onProcessingComplete is never invoked twice for one batch.
C4_CompleteOnce == completeCalls <= 1

\* C6: a run attempts the files of its batch one after the other in batch
\* order, whatever failed before: the attempts so far are the first i files,
\* every earlier item has settled, and a published run has attempted all.
C6_AllAttempted ==
  /\ \A r \in ActiveRuns :
       /\ runs[r].i \in 1..Len(runs[r].files)
       /\ runs[r].attempted = Ids(SubSeq(runs[r].files, 1, runs[r].i))
       /\ runs[r].pc \in {"encoding", "calling"}
            => Len(runs[r].results) = runs[r].i - 1
  /\ emitted.valid => emitted.attempted = Ids(emitted.batch)

\* C6 witness: a two-file batch whose first item failed and whose second
\* item was attempted all the same.
C6_Witness ==
  /\ emitted.valid
  /\ Len(emitted.batch) = 2
  /\ emitted.results[1].status = "error"
  /\ emitted.results[1].error \in ServiceErrors
  /\ emitted.attempted = Ids(emitted.batch)

\* C7 (as stated): during one batch the session is published at most once,
\* and while the batch runs chatSessionId is the first session id returned.
C7_PublishedOnce ==
  /\ adoptCalls <= 1
  /\ (isProcessing /\ firstSid # Null) => chatSessionId = firstSid

C9_SessionOfBatch == chatSessionId # Null => sessionFresh

InLoop(run) == run.pc \in {"encoding", "calling"}

HasSuccess(results) == \E k \in 1..Len(results) : results[k].status = "success"

\* C10: in the session-creation variant a run calls /create-session only
\* when every item has settled, once if some item succeeded and never
\* otherwise; when the call settles the run ends with onProcessingComplete,
\* the session being set to the returned id on success:true and left as it
\* was on success:false or an exception, with no second call.
C10_CreateSession ==
  /\ [](\A r \in ActiveRuns :
          /\ InLoop(runs[r]) => runs[r].creates = 0
          /\ runs[r].pc = "creating"
               => /\ runs[r].creates = 1
                  /\ runs[r].i = Len(runs[r].files)
                  /\ HasSuccess(runs[r].results))
  /\ [][\A r \in Slots :
          /\ (InLoop(runs[r]) /\ ~InLoop(runs'[r]))
               => /\ runs'[r].pc = (IF HasSuccess(emitted'.results)
                                    THEN "creating" ELSE "idle")
                  /\ runs'[r].pc = "idle" => ~isProcessing'
          /\ (runs[r].pc = "creating" /\ runs'[r].pc # "creating")
               => /\ runs'[r].pc = "idle"
                  /\ ~isProcessing'
                  /\ lastCreate'.kind = "ok" => chatSessionId' = lastCreate'.sid
                  /\ lastCreate'.kind # "ok" => chatSessionId' = chatSessionId]_vars

\* C10 witness: /create-session failed after a batch with a success; the
\* session is absent and the batch was completed.
C10_Witness ==
  /\ lastCreate.kind \in {"fail", "throw"}
  /\ chatSessionId = Null
  /\ completeCalls = 1
  /\ ~isProcessing
  /\ HasSuccess(emitted.results)

\* C5 witness: a batch whose items all failed is published, isProcessing is
\* false again and the results view is shown.
C5_Witness ==
  /\ ~isProcessing
  /\ currentView = "results"
  /\ emitted.valid
  /\ Len(emitted.results) = 2
  /\ \A k \in 1..2 : emitted.results[k].status = "error"

\* C5 (as stated): every started batch eventually has its results published
\* with isProcessing false again and the results view shown.
C5_ReachesResultsView ==
  isProcessing ~> (~isProcessing /\ emitted.valid /\ currentView = "results")

\* C5 (amended): every started invocation of processInvoices eventually
\* ends, and when it ends the results of its batch, one per file, are
\* published and isProcessing is false; the results view is shown at that
\* moment unless resetApp was invoked after the batch started.
C5_BatchTerminates ==
  /\ \A r \in Slots : []<>(runs[r].pc = "idle")
  /\ [][\A r \in Slots :
          (runs[r].pc # "idle" /\ runs'[r].pc = "idle")
            => /\ ~isProcessing'
               /\ emitted'.valid
               /\ emitted'.batch = runs[r].files
               /\ SameIds(emitted'.results, runs[r].files)
               /\ processedInvoices' = emitted'.results
               /\ runs[r].age = "live" => currentView' = "results"]_vars

\* C11: handleSend issues a /chat request only with a session id present and
\* a non-empty trimmed input, the request carrying both; a handleSend call
\* made without a session or with a blank input sends nothing and leaves the
\* transcript, the input text and the loading flag as they were.
C11_SendGuard ==
  [][/\ Len(chatReqs') > Len(chatReqs)
          => /\ chatSessionId # Null
             /\ Trim(inputValue) # <<>>
             /\ chatReqs' = Append(chatReqs, [sid |-> chatSessionId,
                                              text |-> Trim(inputValue)])
     /\ (lastSend' # lastSend
           /\ (chatSessionId = Null \/ Trim(inputValue) = <<>>))
          => /\ ~lastSend'.sent
             /\ UNCHANGED <<messages, inputValue, isLoading, chatReqs,
                            deadReqs>>]_vars

\* C11 witness: handleSend was called in the open panel with no session and
\* sent nothing.
C11_Witness ==
  /\ ChatMounted /\ isOpen
  /\ chatSessionId = Null
  /\ lastSend.tick
  /\ ~lastSend.sent
  /\ chatReqs = <<>>
  /\ deadReqs = 0

\* C12 (as stated): the message of a failed item is the error field of the
\* response body whenever the response has one (2xx with success:false or
\* non-2xx), else the generic HTTP description, else the transport message.
C12_StructuredFirst ==
  errorMessage # Null
    => /\ (failure.kind \in {"body", "http"} /\ ~Falsy(failure.error)
             /\ Falsy(failure.detail))
            => errorMessage = failure.error
       /\ (failure.kind = "http" /\ Falsy(failure.error)
             /\ Falsy(failure.detail))
            => errorMessage = failure.message
       /\ (failure.kind = "transport" /\ ~Falsy(failure.message))
            => errorMessage = failure.message

\* C13: when the call of item i returns success:false with error e, result i
\* is an error result with message e, the status of item i becomes error in
\* that step and no other status changes; every result, of a running or a
\* published run, is the one its own item's outcome gives; and the step that
\* ends a run publishes its results and signals completion.
C13_FailureIsolated ==
  /\ [](\A r \in ActiveRuns : \A k \in 1..Len(runs[r].results) :
          /\ runs[r].results[k].id = runs[r].files[k].id
          /\ (runs[r].outcomes[k].kind = "ok")
               <=> (runs[r].results[k].status = "success")
          /\ runs[r].outcomes[k].kind = "fail"
               => runs[r].results[k]
                    = ErrorResult(runs[r].files[k].id, runs[r].outcomes[k].err))
  /\ [](emitted.valid => \A k \in 1..Len(emitted.results) :
          /\ (emitted.outcomes[k].kind = "ok")
               <=> (emitted.results[k].status = "success")
          /\ emitted.outcomes[k].kind = "fail"
               => emitted.results[k]
                    = ErrorResult(emitted.batch[k].id, emitted.outcomes[k].err))
  /\ [][\A r \in Slots :
          (runs[r].pc = "calling" /\ runs'[r].pc # "calling")
            => LET id == runs[r].files[runs[r].i].id
                   ocs == IF runs'[r].pc = "idle" THEN emitted'.outcomes
                          ELSE runs'[r].outcomes
               IN /\ (ocs[runs[r].i].kind = "fail" /\ runs[r].age = "live")
                       => /\ processingStatus'[id] = "error"
                          /\ \A j \in FileIds \ {id} :
                               processingStatus'[j] = processingStatus[j]
                  /\ runs'[r].pc = "idle"
                       => /\ ~isProcessing'
                          /\ emitted'.valid
                          /\ processedInvoices' = emitted'.results]_vars

\* C13 witness: a two-file batch whose first call returned success:false
\* with an error text and whose second call succeeded, completed.
C13_Witness ==
  /\ emitted.valid
  /\ Len(emitted.batch) = 2
  /\ emitted.outcomes[1].kind = "fail"
  /\ emitted.results[1].error \in ServiceErrors
  /\ emitted.results[2].status = "success"
  /\ currentView = "results"
  /\ processingStatus[emitted.batch[1].id] = "error"
  /\ processingStatus[emitted.batch[2].id] = "completed"
  /\ completeCalls = 1
  /\ ~isProcessing

\* the positions of the results that match the search term and the status
\* filter
Matching ==
  {k \in 1..Len(processedInvoices) :
     /\ MatchesSearch(processedInvoices[k], searchTerm)
     /\ (statusFilter = "all" \/ processedInvoices[k].status = statusFilter)}

\* C14: filteredInvoices holds exactly the results that contain the search
\* term (case-insensitively, in document name, vendor name or invoice
\* number) and have the status of the filter, in the order of invoices; under
\* the filter 'success' it holds no error result.
C14_FilterSubsequence ==
  LET shown == filteredInvoices
      match == Matching
  IN /\ Len(shown) = Cardinality(match)
     /\ \A j \in 1..Len(shown) :
          \E k \in match :
            /\ Cardinality({m \in match : m <= k}) = j
            /\ shown[j] = processedInvoices[k]
     /\ statusFilter = "success"
          => \A j \in 1..Len(shown) : shown[j].status # "error"

\* C14 witness: the term "a" under the filter 'success' over a success whose
\* vendor is "A" and an error whose name contains "A": exactly the success
\* is kept.
C14_Witness ==
  /\ ChatMounted
  /\ searchTerm = <<"a">>
  /\ statusFilter = "success"
  /\ Len(processedInvoices) = 2
  /\ processedInvoices[1].status = "error"
  /\ MatchesSearch(processedInvoices[1], searchTerm)
  /\ processedInvoices[2].vendor_name = <<"A">>
  /\ filteredInvoices = <<processedInvoices[2]>>

\* C15 (as stated): currentPage lies in 1..max(1, totalPages), so the page
\* shown is not empty when the filtered list is not.
C15_PageInRange ==
  ChatMounted
    => /\ currentPage \in 1..Max(1, totalPages)
       /\ filteredInvoices # <<>> => currentInvoices # <<>>

\* C16 (as stated): each export writes one data row per success result, in
\* the order of the results, and no row for an error result, whatever the
\* search term, the status filter and the page.
C16_ExportRows ==
  LET successes == {k \in 1..Len(processedInvoices) :
                      processedInvoices[k].status = "success"}
  IN exported.format # "none"
       => /\ exported.done
          /\ Len(exported.rows) = Cardinality(successes)
          /\ \A j \in 1..Len(exported.rows) :
               \E k \in successes :
                 /\ processedInvoices[k].id = exported.rows[j].re
                 /\ Cardinality({m \in successes : m <= k}) = j

\* s is a leading part of t
IsPrefix(s, t) == Len(s) <= Len(t) /\ SubSeq(t, 1, Len(s)) = s

\* the /chat requests issued and not yet settled, whoever awaits them
Outstanding == Len(chatReqs) + deadReqs

\* C17 (as stated): in every step the transcript only grows by appending, and
\* at most one /chat request is outstanding at any time.
C17_AsStated ==
  /\ [][IsPrefix(messages, messages')]_vars
  /\ [](Outstanding <= 1)

\* C17: while the chat panel stays mounted its transcript only grows by
\* appending and reads question, reply to that question, next question, reply
\* to that one, in the order the questions were sent; a question without a
\* reply is the last entry and is the one request the panel awaits, so the
\* panel never has two requests outstanding.  (resetApp unmounts the panel:
\* the transcript is dropped and a request in flight stays outstanding next
\* to the requests of the panel mounted afterwards.)
C17_TranscriptOrder ==
  /\ [][(ChatMounted /\ ChatMounted') => IsPrefix(messages, messages')]_vars
  /\ [](Len(chatReqs) <= 1)
  /\ [](\A i \in 1..Len(messages) :
          IF i % 2 = 1
          THEN /\ messages[i].type = "user"
               /\ messages[i].re = messages[i].content
          ELSE /\ messages[i].type = "assistant"
               /\ messages[i].re = messages[i - 1].re)
  /\ [](IF Len(messages) % 2 = 1
        THEN /\ Len(chatReqs) = 1
             /\ chatReqs[1].text = messages[Len(messages)].content
        ELSE chatReqs = <<>>)

\* C17 witness: two different questions were sent one after the other and
\* both have their reply in the transcript.
C17_Witness ==
  /\ ChatMounted
  /\ Len(messages) = 4
  /\ messages[1].content # messages[3].content
  /\ messages[2].type = "assistant" /\ messages[4].type = "assistant"
  /\ chatReqs = <<>>

\* C18 (as stated): every /chat request that settles, whoever sent it, puts
\* exactly one assistant message at the end of the transcript.
C18_AsStated ==
  [][Outstanding' < Outstanding
       => /\ Len(messages') = Len(messages) + 1
          /\ IsPrefix(messages, messages')
          /\ messages'[Len(messages')].type = "assistant"]_vars

\* C18: every /chat request that settles while the panel that sent it is
\* mounted appends exactly one assistant message to the transcript, the answer
\* on success:true and the one fallback text on success:false or an exception,
\* changes nothing else of the transcript and sets the loading flag to false,
\* after which a non-blank input is accepted again; a raised loading flag is
\* always lowered again.  (The reply to a request whose panel resetApp has
\* unmounted is dropped.)
C18_OneReply ==
  /\ [][Len(chatReqs') < Len(chatReqs) /\ ChatMounted'
          => LET m == messages'[Len(messages')]
             IN /\ messages' = Append(messages, m)
                /\ m.type = "assistant"
                /\ m.re = chatReqs[1].text
                /\ m.how = "ok" => m.content \in Answers
                /\ m.how # "ok" => m.content = FallbackText
                /\ ~isLoading'
                /\ \A v \in Inputs :
                     Trim(v) # <<>> => ~SendRejected(v, isLoading', chatSessionId)]_vars
  /\ (isLoading ~> ~isLoading)

\* C18 witness: a request that threw and a request answered with
\* success:false each left the fallback text, and the panel is idle.
C18_Witness ==
  /\ ChatMounted
  /\ Len(messages) = 4
  /\ messages[2].how = "throw" /\ messages[2].content = FallbackText
  /\ messages[4].how = "fail" /\ messages[4].content = FallbackText
  /\ ~isLoading
  /\ chatReqs = <<>>

\* C19 (as stated): once a deleteSession call has settled, chatSessionId is
\* null, and the failure of the DELETE was not raised to the caller.
C19_SessionCleared ==
  lastDelete # "none" => (chatSessionId = Null /\ lastDelete # "raised")

\* the invocations of processInvoices of the mounted InvoiceProcessor
LiveRuns == {r \in ActiveRuns : runs[r].age = "live"}

\* the ids that have an entry in the status map
StatusKeys == {id \in FileIds : processingStatus[id] # "none"}

\* C20 (as stated): once the only run of the mounted InvoiceProcessor has
\* started and has not yet issued an extraction call, every id of its batch
\* has status pending; and while a run of the mounted InvoiceProcessor is
\* under way the key set of the status map is the id set of its batch.
C20_PendingAtStart ==
  /\ \A r \in LiveRuns :
       (LiveRuns = {r} /\ runs[r].pc = "encoding" /\ runs[r].i = 1)
         => \A id \in IdSet(runs[r].files) : processingStatus[id] = "pending"
  /\ \A r \in LiveRuns : StatusKeys = IdSet(runs[r].files)

\* the ids shown as being processed
ProcessingIds == {id \in FileIds : processingStatus[id] = "processing"}

\* the invocations of processInvoices awaiting documentAPI.processDocument
InFlight == {r \in Slots : runs[r].pc = "calling"}

\* C21 (as stated): at most one id has status processing at any time, and
\* every item of a run of the mounted InvoiceProcessor that the run has not
\* reached yet is pending.
C21_OneProcessing ==
  /\ Cardinality(ProcessingIds) <= 1
  /\ \A r \in LiveRuns : \A k \in 1..Len(runs[r].files) :
       k > runs[r].i => processingStatus[runs[r].files[k].id] = "pending"

\* C22 (as stated): at most one /process-document call is in flight at any
\* moment, over all invocations of processInvoices.
C22_OneInFlight == Cardinality(InFlight) <= 1

\* C23 (as stated): in the inline variant a /process-document request of the
\* batch shown carries no session id while no response of the batch has
\* returned one, and otherwise the first id returned, which is the published
\* chatSessionId.
C23_SharedSessionId ==
  \A r \in InFlight :
    runs[r].age = "live"
      => /\ runs[r].sessionId = firstSid
         /\ runs[r].sessionId # Null => runs[r].sessionId = chatSessionId

\* C25 (as stated): after the editor saved data d for result X of the result
\* set shown, X carries d in that set and the other results are as they
\* were: the set is what the update of X by d gives.
C25_SaveApplied ==
  (ChatMounted /\ lastSave.id # NoInvoice)
    => processedInvoices
         = updatedInvoices(processedInvoices, lastSave.id, lastSave.data)

\* no two records of fs share an id
DistinctIds(fs) == \A j, k \in 1..Len(fs) : fs[j].id = fs[k].id => j = k

\* C26 (as stated): no two records of the files list share an id, and once a
\* batch has started the status map has one entry per record.
C26_UniqueIds ==
  /\ DistinctIds(files)
  /\ LiveRuns # {} => Cardinality(StatusKeys) = Len(files)

\* C26: removeFile(id) removes every record that carries id and keeps the
\* others in their order; it removes exactly one record when the ids of the
\* list are distinct, which they are as long as the generator has not
\* returned a token twice; and once a batch has started the status map has
\* one entry per id of the list.
C26_RemoveById ==
  /\ lastRemove.valid
       => LET before == lastRemove.before
              keep == {k \in 1..Len(before) : before[k].id # lastRemove.id}
          IN /\ Len(files) = Cardinality(keep)
             /\ \A j \in 1..Len(files) :
                  \E k \in keep :
                    /\ Cardinality({m \in keep : m <= k}) = j
                    /\ files[j] = before[k]
             /\ DistinctIds(before)
                  => (Len(files) = Len(before) - 1 /\ DistinctIds(files))
  /\ LiveRuns # {} => StatusKeys = IdSet(files)

\* C26 witness: the generator returned one token twice and removeFile of
\* that id took both records out, leaving the third.
C26_Witness ==
  /\ lastRemove.valid
  /\ Len(lastRemove.before) = 3
  /\ Len(files) = 1
  /\ files[1].id # lastRemove.id

\* a step in which some invocation of processInvoices calls onProcessed
Publishes == emitted' # emitted /\ emitted'.valid

\* the invocations of the mounted InvoiceProcessor with an item unsettled
Unsettled(rs) == {r \in Slots : InLoop(rs[r]) /\ rs[r].age = "live"}

\* C24 (as stated): onProcessed is called once for a started batch, when no
\* item of the batch is unsettled any more, and not after
\* onProcessingComplete; processedInvoices is not written while an item of
\* the batch is unsettled.
C24_PublishedOnce ==
  /\ [][Publishes => (~emitted.valid /\ completeCalls = 0)]_vars
  /\ [][(processedInvoices' # processedInvoices /\ currentView' = "results")
          => Unsettled(runs') = {}]_vars

\* C27 (as stated): while a batch is shown, a status that is completed or
\* error stays as it is.
C27_TerminalStays ==
  [][(currentView = "results" /\ currentView' = "results")
       => \A id \in FileIds :
            processingStatus[id] \in Terminal
              => processingStatus'[id] = processingStatus[id]]_vars

\* C28 (as stated): when the mounted InvoiceProcessor publishes results, the
\* status of every id is completed if its published result is a success and
\* error if it is an error.
C28_StatusMatchesResult ==
  [][(Publishes /\ emitted'.age = "live")
       => \A k \in 1..Len(emitted'.results) :
            processingStatus'[emitted'.results[k].id]
              = (IF emitted'.results[k].status = "success"
                 THEN "completed" ELSE "error")]_vars

\* C29 (as stated): processedInvoices holds results only in the results
\* view, and only those published by a run of the batch shown; after
\* resetApp it stays empty until such a run publishes.
C29_NoOldResults ==
  processedInvoices # <<>>
    => /\ currentView = "results"
       /\ emitted.valid
       /\ emitted.age = "live"
       /\ processedInvoices = emitted.results

\* C30 (as stated): exportToCSV on a result set without a success result,
\* empty or all errors, completes and writes an export with no data row.
C30_CsvWithoutRows ==
  (exported.format = "csv" /\ glReadyData(processedInvoices) = <<>>)
    => (exported.done /\ exported.rows = <<>>)

====
